---- MODULE Spec2Model ----
(***************************************************************************)
(* A model of `dnstool lancache-dns` (src/cmd/lancache-dns.go): the        *)
(* pipeline that turns the process environment, the cache-domains catalog  *)
(* and its domain-list files into the cache zone and the RPZ zone.         *)
(*                                                                         *)
(* Text is modelled as a sequence of tokens (a token is a character or an  *)
(* indivisible chunk of text), so concatenation is \o, the empty string is *)
(* << >>, and a file is a sequence of lines.                               *)
(***************************************************************************)
EXTENDS Naturals, Sequences, FiniteSets, TLC

VARIABLES
    env,            \* the process environment: the variables that are set -> value
    catalog,        \* cache_domains.json: sequence of [name, file]
    domainFiles,    \* domain-list files: file name -> sequence of lines
    files,          \* generated / operator files: path -> [exists, lines]
    files0,         \* the files as they were before the first run
    gitPresent,     \* domainsPath/.git exists
    clock,          \* time.Now().Unix()
    run,            \* number of the current run of the command
    pc,             \* the step the current run is about to execute
    err,            \* the error the run was aborted with (<< >>: none)
    failedAt,       \* the step that returned err
    steps,          \* the steps this run has executed, in order
    faultSeen,      \* the I/O and external-process failures met by this run
    loc,            \* locals of generateLancacheDNS / generateConfiguration
    svcLog,         \* per processed service: what generateService decided and wrote
    finalAdded,     \* the lines finaliseConfiguration appended to rpzZone
    lastGood        \* the zones as left by the last run that finished without error

vars == <<env, catalog, domainFiles, files, files0, gitPresent, clock, run, pc, err,
          failedAt, steps, faultSeen, loc, svcLog, finalAdded, lastGood>>

----------------------------------------------------------------------------
(* Bounds *)

MaxServices == 2    \* services in the catalog
MaxLines == 2       \* lines of a domain-list file
MaxRuns == 3        \* consecutive runs of the command

----------------------------------------------------------------------------
(* Text helpers *)

Lowers == <<"s", "t", "o", "r", "w", "u", "p">>
Uppers == <<"S", "T", "O", "R", "W", "U", "P">>

UpperChar(c) ==
    IF \E i \in DOMAIN Lowers : Lowers[i] = c
    THEN Uppers[CHOOSE i \in DOMAIN Lowers : Lowers[i] = c]
    ELSE c

LowerChar(c) ==
    IF \E i \in DOMAIN Uppers : Uppers[i] = c
    THEN Lowers[CHOOSE i \in DOMAIN Uppers : Uppers[i] = c]
    ELSE c

ToUpper(s) == [i \in DOMAIN s |-> UpperChar(s[i])]
ToLower(s) == [i \in DOMAIN s |-> LowerChar(s[i])]

HasPrefix(s, c) == Len(s) > 0 /\ s[1] = c

RECURSIVE TrimLeft(_)
TrimLeft(s) == IF Len(s) > 0 /\ s[1] = " " THEN TrimLeft(Tail(s)) ELSE s

RECURSIVE TrimRight(_)
TrimRight(s) ==
    IF Len(s) > 0 /\ s[Len(s)] = " " THEN TrimRight(SubSeq(s, 1, Len(s) - 1)) ELSE s

TrimSpace(s) == TrimRight(TrimLeft(s))

RECURSIVE Join(_, _)
Join(list, sep) ==
    IF list = << >> THEN << >>
    ELSE IF Len(list) = 1 THEN list[1]
    ELSE list[1] \o <<sep>> \o Join(Tail(list), sep)

RECURSIVE Flatten(_)
Flatten(list) == IF list = << >> THEN << >> ELSE list[1] \o Flatten(Tail(list))

Digits == <<"0", "1", "2", "3", "4", "5", "6", "7", "8", "9">>

RECURSIVE FormatInt(_)
FormatInt(n) ==
    IF n < 10 THEN <<Digits[n + 1]>>
    ELSE FormatInt(n \div 10) \o <<Digits[(n % 10) + 1]>>

----------------------------------------------------------------------------
(* IP utilities *)

IsSeparator(c) == c \in {",", " "}

RECURSIVE SplitIPs(_, _)
SplitIPs(raw, cur) ==
    IF raw = << >> THEN (IF cur = << >> THEN << >> ELSE <<cur>>)
    ELSE IF IsSeparator(raw[1])
         THEN (IF cur = << >> THEN << >> ELSE <<cur>>) \o SplitIPs(Tail(raw), << >>)
         ELSE SplitIPs(Tail(raw), cur \o <<raw[1]>>)

cleanIP(raw) == SplitIPs(raw, << >>)

Octets ==
    {"0", "1", "5", "8", "9", "10", "16", "113", "127", "168", "169", "172", "192", "203", "254"}

IsIPv4(s) ==
    /\ Len(s) = 7
    /\ \A i \in {1, 3, 5, 7} : s[i] \in Octets
    /\ \A i \in {2, 4, 6} : s[i] = "."

IsPrivate(s) ==
    /\ IsIPv4(s)
    /\ \/ s[1] = "10"
       \/ s[1] = "127"
       \/ s[1] = "192" /\ s[3] = "168"
       \/ s[1] = "172" /\ s[3] = "16"
       \/ s[1] = "169" /\ s[3] = "254"

ErrInvalidIP == <<"not a valid IP address">>
ErrNotPrivate == <<"not a private IP address">>
ErrIO == <<"i/o error">>
NoErr == << >>

isIP(ips) == IF \A i \in DOMAIN ips : IsIPv4(ips[i]) THEN NoErr ELSE ErrInvalidIP

isPrivateIP(ips) == IF \A i \in DOMAIN ips : IsPrivate(ips[i]) THEN NoErr ELSE ErrNotPrivate

reverseIPv4(ip) == <<ip[5], ".", ip[3], ".", ip[1]>>

----------------------------------------------------------------------------
(* The process environment *)

K_USE_GENERIC_CACHE == <<"USE_GENERIC_CACHE">>
K_LANCACHE_IP == <<"LANCACHE_IP">>
K_LANCACHE_DNSDOMAIN == <<"LANCACHE_DNSDOMAIN">>
K_UPSTREAM_DNS == <<"UPSTREAM_DNS">>
K_PASSTHRU_IPS == <<"PASSTHRU_IPS">>
K_NOFETCH == <<"NOFETCH">>
K_ENABLE_DNSSEC_VALIDATION == <<"ENABLE_DNSSEC_VALIDATION">>

Getenv(k) == IF k \in DOMAIN env THEN env[k] ELSE << >>

LookupEnv(k) == k \in DOMAIN env

----------------------------------------------------------------------------
(* Paths, templates and messages *)

zonePath == <<"/etc/bind/cache/">>
rpzZone == <<"/etc/bind/cache/rpz.db">>
customZone == <<"/etc/bind/cache/custom.db">>
cacheConf == <<"/etc/bind/cache.conf">>
namedConf == <<"/etc/bind/named.conf.options">>
resolvConf == <<"/etc/resolv.conf">>

cacheConfTemplate == <<"<cacheConfTemplate>">>
rpzTemplate == <<"<rpzTemplate>">>

fmtCacheTemplate(domain, serial) == <<"$ORIGIN ">> \o domain \o <<". SOA serial ">> \o serial

DefaultDomain == <<"cache.lancache.net">>
OtherDomain == <<"lan.example">>
DefaultUpstream == <<"8", ".", "8", ".", "8", ".", "8">>
OtherUpstream == <<"1", ".", "1", ".", "1", ".", "1">>

CacheZonePath(domain) == zonePath \o domain \o <<".db">>

Paths ==
    {rpzZone, customZone, cacheConf, namedConf, resolvConf}
        \cup {CacheZonePath(d) : d \in {<< >>, DefaultDomain, OtherDomain}}

Absent == [exists |-> FALSE, lines |-> << >>]

Created == [exists |-> TRUE, lines |-> << >>]

Fprintln(f, line) == [exists |-> TRUE, lines |-> Append(f.lines, line)]

RECURSIVE WriteLines(_, _)
WriteLines(f, ls) == IF ls = << >> THEN f ELSE WriteLines(Fprintln(f, ls[1]), Tail(ls))

ErrNeedIP == <<"If you are using USE_GENERIC_CACHE then you must set LANCACHE_IP">>
ErrNeedGeneric == <<"If you are using LANCACHE_IP then you must set USE_GENERIC_CACHE=true">>
ErrNoServiceIP(service) == <<"Could not find IP for requested service: ">> \o service

----------------------------------------------------------------------------
(* generateLancacheDNS, lines 27-47: the settings read from the environment *)

ResolveGenericCache ==
    IF Getenv(K_USE_GENERIC_CACHE) # << >> THEN Getenv(K_USE_GENERIC_CACHE) ELSE <<"false">>

ResolveDNSDomain ==
    IF Getenv(K_LANCACHE_DNSDOMAIN) # DefaultDomain
    THEN Getenv(K_LANCACHE_DNSDOMAIN)
    ELSE DefaultDomain

ResolveUpstreamDNS ==
    IF Getenv(K_UPSTREAM_DNS) # DefaultUpstream THEN Getenv(K_UPSTREAM_DNS) ELSE DefaultUpstream

ResolveNoFetch == IF Getenv(K_NOFETCH) # << >> THEN Getenv(K_NOFETCH) ELSE <<"false">>

(* variant: the non-generic branch does not reject a global IP *)
checkGenericCache_GenericOnly(useGenericCache, cacheIP) ==
    IF useGenericCache = <<"true">>
    THEN (IF cacheIP = << >> THEN ErrNeedIP ELSE isPrivateIP(cleanIP(cacheIP)))
    ELSE NoErr

checkGenericCache(useGenericCache, cacheIP) ==
    IF useGenericCache = <<"true">>
    THEN (IF cacheIP = << >> THEN ErrNeedIP ELSE isPrivateIP(cleanIP(cacheIP)))
    ELSE (IF cacheIP # << >> THEN ErrNeedGeneric ELSE NoErr)

----------------------------------------------------------------------------
(* generateService and generateDomains *)

(* variant: the override is tested for a value, not for presence *)
ServiceEnabled_NonEmptyOverride(genericCache, service) ==
    IF genericCache = <<"true">>
    THEN Getenv(<<"DISABLE_">> \o service) # <<"true">>
    ELSE Getenv(service \o <<"CACHE_IP">>) # << >>

ServiceEnabled(genericCache, service) ==
    IF genericCache = <<"true">>
    THEN Getenv(<<"DISABLE_">> \o service) # <<"true">>
    ELSE LookupEnv(service \o <<"CACHE_IP">>)

(* variant: the global IP wins over the override *)
ServiceIP_GlobalFirst(service, cacheIP) ==
    IF cacheIP # << >> THEN cacheIP ELSE Getenv(service \o <<"CACHE_IP">>)

ServiceIP(service, cacheIP) ==
    IF Getenv(service \o <<"CACHE_IP">>) # << >>
    THEN Getenv(service \o <<"CACHE_IP">>)
    ELSE cacheIP

ARecord(service, ip) == service \o <<" IN A ">> \o ip \o <<";">>

ServicePassthru(ip) ==
    <<"32.">> \o reverseIPv4(ip) \o <<".rpz-client-ip      CNAME rpz-passthru.;">>

RewriteLine(line, service, lancacheDNSDomain) ==
    TrimSpace(line) \o <<" IN CNAME ">> \o service \o <<".">> \o lancacheDNSDomain \o <<".;">>

(* The read loop of generateDomains. readErrAt = i > 0 means that the i-th   *)
(* call of ReadLine returns an error other than io.EOF (and no line); the    *)
(* loop tests for io.EOF only, so it goes on with an empty line and the      *)
(* next call returns what the failed one would have.                        *)
RECURSIVE ReadLoop(_, _, _, _, _)
ReadLoop(lines, i, readErrAt, service, lancacheDNSDomain) ==
    LET failed == IF readErrAt = i
                  THEN <<RewriteLine(<< >>, service, lancacheDNSDomain)>>
                  ELSE << >>
    IN  IF i > Len(lines) THEN failed
        ELSE failed
             \o (IF HasPrefix(lines[i], "#")
                 THEN << >>
                 ELSE <<RewriteLine(lines[i], service, lancacheDNSDomain)>>)
             \o ReadLoop(lines, i + 1, readErrAt, service, lancacheDNSDomain)

generateDomains(lines, lancacheDNSDomain, service, readErrAt) ==
    ReadLoop(lines, 1, readErrAt, service, lancacheDNSDomain)

(* variant: each address is validated just before its records are written *)
EmitRecords_CheckInLoop(service, ips) ==
    LET bad == {i \in DOMAIN ips : ~IsPrivate(ips[i])}
        n == IF bad = {} THEN Len(ips) ELSE (CHOOSE i \in bad : \A j \in bad : i <= j) - 1
    IN  [err |-> isPrivateIP(ips),
         cache |-> [i \in 1..n |-> ARecord(service, ips[i])],
         rpz |-> [i \in 1..n |-> ServicePassthru(ips[i])]]

(* lines 328-366: the whole list is validated before the first record is   *)
(* written; then one A record and one passthrough record per address       *)
EmitRecords(service, ips) ==
    IF isPrivateIP(ips) # NoErr
    THEN [err |-> isPrivateIP(ips), cache |-> << >>, rpz |-> << >>]
    ELSE [err |-> NoErr,
          cache |-> [i \in DOMAIN ips |-> ARecord(service, ips[i])],
          rpz |-> [i \in DOMAIN ips |-> ServicePassthru(ips[i])]]

ServiceFaults(nLines) ==
    {[kind |-> k, at |-> 0] : k \in {"none", "openRPZ", "openCacheZone", "openDomainFile"}}
        \cup {[kind |-> "read", at |-> p] : p \in 1..(nLines + 1)}

(* What one call of generateService decides and writes: the lines appended   *)
(* to cacheZone (cacheAdd) and to rpzZone (rpzAdd, then domAdd), the error   *)
(* returned, and the failure it met (fault = "none": the chosen failure did  *)
(* not lie on its path).                                                     *)
generateService(genericCache, cacheIP, lancacheDNSDomain, name, lines, f) ==
    LET service == ToUpper(name)
        enabled == ServiceEnabled(genericCache, service)
        ip == IF enabled THEN ServiceIP(service, cacheIP) ELSE << >>
        lower == ToLower(service)
        head == <<<<";## ">> \o lower>>
        ips == cleanIP(ip)
        res(e, c, r, d, flt) ==
            [enabled |-> enabled, ip |-> ip, err |-> e, cacheAdd |-> c, rpzAdd |-> r,
             domAdd |-> d, fault |-> flt]
        recs == EmitRecords(lower, ips)
        cacheRecs == recs.cache
        rpzRecs == recs.rpz
        populate == Len(ips) > 0
    IN  IF ~enabled THEN res(NoErr, << >>, << >>, << >>, "none")
        ELSE IF ip = << >> THEN res(ErrNoServiceIP(service), << >>, << >>, << >>, "none")
        ELSE IF f.kind = "openRPZ" THEN res(ErrIO, << >>, << >>, << >>, "openRPZ")
        ELSE IF f.kind = "openCacheZone" /\ cacheRecs # << >>
             THEN res(ErrIO, << >>, head, << >>, "openCacheZone")
        ELSE IF recs.err # NoErr THEN res(recs.err, cacheRecs, head \o rpzRecs, << >>, "none")
        ELSE IF populate /\ f.kind = "openDomainFile"
             THEN res(ErrIO, cacheRecs, head \o rpzRecs, << >>, "openDomainFile")
        ELSE IF populate
             THEN res(NoErr, cacheRecs, head \o rpzRecs,
                      generateDomains(lines, lancacheDNSDomain, lower,
                                      IF f.kind = "read" THEN f.at ELSE 0),
                      IF f.kind = "read" THEN "read" ELSE "none")
        ELSE res(NoErr, << >>, head, << >>, "none")

----------------------------------------------------------------------------
(* finaliseConfiguration *)

FinalPassthru(ip) ==
    <<<<";## Additional RPZ passthroughs">>,
      <<"32.">> \o reverseIPv4(ip) \o <<".rpz-client-ip      CNAME rpz-passthru.">>>>

IncludeLine == <<"$INCLUDE ">> \o customZone

(* variant: the custom zone is created without looking *)
EnsureCustomZone_Create(f) == Created

(* lines 456-467: the custom zone is created only when Stat says it is absent *)
EnsureCustomZone(f) == IF f.exists THEN f ELSE Created

RECURSIVE ReplaceTokens(_, _, _)
ReplaceTokens(line, dns, dnssec) ==
    IF line = << >> THEN << >>
    ELSE (CASE line[1] = "#ENABLE_UPSTREAM_DNS#" -> << >>
            [] line[1] = "dns_ip" -> Join(dns, "; ")
            [] line[1] = "dnssec-validation no" /\ dnssec -> <<"dnssec-validation auto">>
            [] OTHER -> <<line[1]>>)
         \o ReplaceTokens(Tail(line), dns, dnssec)

FinalFaults == {"none", "openRPZ", "createCustom", "readNamedConf"}

(* What one call of finaliseConfiguration does to rpzZone (rpzAdd), to the  *)
(* custom zone and to named.conf. dnsNil: the slice dns is nil.             *)
finaliseConfiguration(dns, dnsNil, fs, f) ==
    LET ips == cleanIP(Getenv(K_PASSTHRU_IPS))
        pass == Flatten([i \in DOMAIN ips |-> FinalPassthru(ips[i])])
        dnssec == Getenv(K_ENABLE_DNSSEC_VALIDATION) = <<"true">>
        res(e, r, c, n, flt) ==
            [err |-> e, rpzAdd |-> r, custom |-> c, named |-> n, fault |-> flt]
        custom == EnsureCustomZone(fs[customZone])
        named == [exists |-> TRUE,
                  lines |-> [i \in DOMAIN fs[namedConf].lines |->
                                ReplaceTokens(fs[namedConf].lines[i], dns, dnssec)]]
    IN  IF isIP(ips) # NoErr THEN res(isIP(ips), << >>, fs[customZone], fs[namedConf], "none")
        ELSE IF ips # << >> /\ f = "openRPZ"
             THEN res(ErrIO, << >>, fs[customZone], fs[namedConf], f)
        ELSE IF ~fs[customZone].exists /\ f = "createCustom"
             THEN res(ErrIO, pass, fs[customZone], fs[namedConf], f)
        ELSE IF f = "openRPZ" THEN res(ErrIO, pass, custom, fs[namedConf], f)
        ELSE IF ~dnsNil /\ f = "readNamedConf"
             THEN res(ErrIO, pass \o <<IncludeLine>>, custom, fs[namedConf], f)
        ELSE res(NoErr, pass \o <<IncludeLine>>, custom,
                 IF dnsNil THEN fs[namedConf] ELSE named, "none")

----------------------------------------------------------------------------
(* The steps of one run *)

LocInit ==
    [useGenericCache |-> << >>, lancacheDNSDomain |-> << >>, cacheZone |-> << >>,
     dns |-> << >>, cacheIP |-> << >>, services |-> << >>, serviceFiles |-> << >>,
     idx |-> 0]

Inputs == <<env, catalog, domainFiles, files0>>

(* log.Fatal: the run ends with error e, returned by `step` *)
Abort(step, e) ==
    /\ pc' = "done"
    /\ err' = e
    /\ failedAt' = step

Goto(next) ==
    /\ pc' = next
    /\ UNCHANGED <<err, failedAt>>

Did(step) == steps' = Append(steps, step)

Met(fault) == faultSeen' = IF fault = "none" THEN faultSeen ELSE Append(faultSeen, fault)

Start ==
    /\ pc = "start"
    /\ LET dom == ResolveDNSDomain
           dns == cleanIP(ResolveUpstreamDNS)
       IN  /\ loc' = [loc EXCEPT !.useGenericCache = ResolveGenericCache,
                                 !.lancacheDNSDomain = dom,
                                 !.cacheZone = CacheZonePath(dom),
                                 !.dns = dns]
           /\ IF isIP(dns) # NoErr
              THEN Abort("isIP", isIP(dns))
              ELSE Goto("writeResolverConfiguration")
    /\ Did("isIP")
    /\ UNCHANGED <<Inputs, files, gitPresent, clock, run, faultSeen, svcLog, finalAdded,
                   lastGood>>

writeResolverConfiguration ==
    /\ pc = "writeResolverConfiguration"
    /\ \E fails \in BOOLEAN :
          IF fails
          THEN /\ Abort("writeResolverConfiguration", ErrIO)
               /\ Met("create resolv.conf")
               /\ UNCHANGED files
          ELSE /\ Goto("bootstrapDNS")
               /\ Met("none")
               /\ files' = [files EXCEPT ![resolvConf] =
                     WriteLines(Created,
                                <<<<"# Lancache dns config">>>>
                                    \o [i \in DOMAIN loc.dns |-> <<"nameserver ">> \o loc.dns[i]])]
    /\ Did("writeResolverConfiguration")
    /\ UNCHANGED <<Inputs, gitPresent, clock, run, loc, svcLog, finalAdded, lastGood>>

(* git clone is fatal when it fails; git fetch is logged and the local copy *)
(* is used; the results of set-url and reset are dropped.                   *)
bootstrapDNS ==
    /\ pc = "bootstrapDNS"
    /\ \E cloneFails \in (IF gitPresent THEN {FALSE} ELSE BOOLEAN),
          fetchFails \in (IF ResolveNoFetch = <<"true">> THEN {FALSE} ELSE BOOLEAN) :
          IF cloneFails
          THEN /\ Abort("bootstrapDNS", ErrIO)
               /\ Met("git clone")
               /\ UNCHANGED gitPresent
          ELSE /\ Goto("checkGenericCache")
               /\ Met(IF fetchFails THEN "git fetch" ELSE "none")
               /\ gitPresent' = TRUE
    /\ Did("bootstrapDNS")
    /\ UNCHANGED <<Inputs, files, clock, run, loc, svcLog, finalAdded, lastGood>>

CheckGenericCache ==
    /\ pc = "checkGenericCache"
    /\ LET cacheIP == Getenv(K_LANCACHE_IP)
           e == checkGenericCache(loc.useGenericCache, cacheIP)
       IN  /\ loc' = [loc EXCEPT !.cacheIP = cacheIP]
           /\ IF e # NoErr THEN Abort("checkGenericCache", e) ELSE Goto("generateCacheConf")
    /\ Did("checkGenericCache")
    /\ UNCHANGED <<Inputs, files, gitPresent, clock, run, faultSeen, svcLog, finalAdded,
                   lastGood>>

generateCacheConf ==
    /\ pc = "generateCacheConf"
    /\ \E fails \in BOOLEAN :
          IF fails
          THEN /\ Abort("generateCacheConf", ErrIO)
               /\ Met("create cacheConf")
               /\ UNCHANGED files
          ELSE /\ Goto("generateCacheZone")
               /\ Met("none")
               /\ files' = [files EXCEPT ![cacheConf] = Fprintln(Created, cacheConfTemplate)]
    /\ Did("generateCacheConf")
    /\ UNCHANGED <<Inputs, gitPresent, clock, run, loc, svcLog, finalAdded, lastGood>>

(* os.Create truncates; the header carries the domain and the serial *)
generateCacheZone(old, lancacheDNSDomain, now) ==
    Fprintln(Created, fmtCacheTemplate(lancacheDNSDomain, FormatInt(now)))

GenerateCacheZone ==
    /\ pc = "generateCacheZone"
    /\ \E f \in {"none", "create cacheZone", "write cacheZone"} :
          /\ Met(f)
          /\ CASE f = "create cacheZone" ->
                    /\ Abort("generateCacheZone", ErrIO)
                    /\ UNCHANGED files
               [] f = "write cacheZone" ->
                    /\ Abort("generateCacheZone", ErrIO)
                    /\ files' = [files EXCEPT ![loc.cacheZone] = Created]
               [] OTHER ->
                    /\ Goto("generateRPZZone")
                    /\ files' = [files EXCEPT ![loc.cacheZone] =
                          generateCacheZone(files[loc.cacheZone], loc.lancacheDNSDomain, clock)]
    /\ Did("generateCacheZone")
    /\ UNCHANGED <<Inputs, gitPresent, clock, run, loc, svcLog, finalAdded, lastGood>>

(* variant: the file is opened for append instead of created *)
generateRPZZone_Append(old) == Fprintln(old, rpzTemplate)

generateRPZZone(old) == Fprintln(Created, rpzTemplate)

GenerateRPZZone ==
    /\ pc = "generateRPZZone"
    /\ \E f \in {"none", "create rpzZone", "write rpzZone"} :
          /\ Met(f)
          /\ CASE f = "create rpzZone" ->
                    /\ Abort("generateRPZZone", ErrIO)
                    /\ UNCHANGED files
               [] f = "write rpzZone" ->
                    /\ Abort("generateRPZZone", ErrIO)
                    /\ files' = [files EXCEPT ![rpzZone] = Created]
               [] OTHER ->
                    /\ Goto("identifyServices")
                    /\ files' = [files EXCEPT ![rpzZone] = generateRPZZone(files[rpzZone])]
    /\ Did("generateRPZZone")
    /\ UNCHANGED <<Inputs, gitPresent, clock, run, loc, svcLog, finalAdded, lastGood>>

identifyServices ==
    /\ pc = "identifyServices"
    /\ \E fails \in BOOLEAN :
          IF fails
          THEN /\ Abort("identifyServices", ErrIO)
               /\ Met("read catalog")
               /\ UNCHANGED loc
          ELSE /\ Goto(IF Len(catalog) = 0 THEN "finaliseConfiguration" ELSE "generateService")
               /\ Met("none")
               /\ loc' = [loc EXCEPT !.services = [i \in DOMAIN catalog |-> catalog[i].name],
                                     !.serviceFiles = [i \in DOMAIN catalog |-> catalog[i].file],
                                     !.idx = 1]
    /\ Did("identifyServices")
    /\ UNCHANGED <<Inputs, files, gitPresent, clock, run, svcLog, finalAdded, lastGood>>

(* One iteration of the loop of checkService *)
checkService ==
    /\ pc = "generateService"
    /\ LET i == loc.idx
           lines == domainFiles[loc.serviceFiles[i]]
       IN  \E f \in ServiceFaults(Len(lines)) :
              LET r == generateService(loc.useGenericCache, loc.cacheIP, loc.lancacheDNSDomain,
                                       loc.services[i], lines, f)
              IN  /\ r.fault = f.kind
                  /\ Met(r.fault)
                  /\ files' = [files EXCEPT
                        ![loc.cacheZone] = WriteLines(@, r.cacheAdd),
                        ![rpzZone] = WriteLines(@, r.rpzAdd \o r.domAdd)]
                  /\ svcLog' = Append(svcLog, [r EXCEPT !.fault = f])
                  /\ IF r.err # NoErr THEN Abort("generateService", r.err)
                     ELSE IF i = Len(loc.services) THEN Goto("finaliseConfiguration")
                     ELSE Goto("generateService")
                  /\ loc' = [loc EXCEPT !.idx = IF r.err = NoErr THEN i + 1 ELSE i]
    /\ Did("generateService")
    /\ UNCHANGED <<Inputs, gitPresent, clock, run, finalAdded, lastGood>>

FinaliseConfiguration ==
    /\ pc = "finaliseConfiguration"
    /\ \E f \in FinalFaults, dnsNil \in (IF loc.dns = << >> THEN BOOLEAN ELSE {FALSE}) :
          LET r == finaliseConfiguration(loc.dns, dnsNil, files, f)
          IN  /\ r.fault = f
              /\ Met(r.fault)
              /\ files' = [files EXCEPT ![rpzZone] = WriteLines(@, r.rpzAdd),
                                        ![customZone] = r.custom,
                                        ![namedConf] = r.named]
              /\ finalAdded' = r.rpzAdd
              /\ pc' = "done"
              /\ err' = r.err
              /\ failedAt' = IF r.err = NoErr THEN "" ELSE "finaliseConfiguration"
    /\ Did("finaliseConfiguration")
    /\ UNCHANGED <<Inputs, gitPresent, clock, run, loc, svcLog, lastGood>>

ReadFaultSeen == \E i \in DOMAIN faultSeen : faultSeen[i] = "read"

(* The command is run again, later, in the same environment *)
NextRun ==
    /\ pc = "done"
    /\ run < MaxRuns
    /\ run' = run + 1
    /\ clock' = clock + 1
    /\ pc' = "start"
    /\ err' = NoErr
    /\ failedAt' = ""
    /\ steps' = << >>
    /\ faultSeen' = << >>
    /\ loc' = LocInit
    /\ svcLog' = << >>
    /\ finalAdded' = << >>
    /\ lastGood' = IF err = NoErr
                   THEN [ok |-> TRUE, run |-> run, cache |-> files[loc.cacheZone].lines,
                         rpz |-> files[rpzZone].lines, readFault |-> ReadFaultSeen]
                   ELSE lastGood
    /\ UNCHANGED <<Inputs, files, gitPresent>>

Next ==
    \/ Start
    \/ writeResolverConfiguration
    \/ bootstrapDNS
    \/ CheckGenericCache
    \/ generateCacheConf
    \/ GenerateCacheZone
    \/ GenerateRPZZone
    \/ identifyServices
    \/ checkService
    \/ FinaliseConfiguration

NextRerun ==
    \/ Next
    \/ NextRun

----------------------------------------------------------------------------
(* The inputs of a run: environment, catalog, domain lists, earlier files *)

PrivA == <<"10", ".", "0", ".", "0", ".", "5">>
PrivB == <<"192", ".", "168", ".", "1", ".", "9">>
PubA == <<"8", ".", "8", ".", "8", ".", "8">>
PassIP == <<"203", ".", "0", ".", "113", ".", "5">>
BadIP == <<"bad">>

AllServices ==
    <<[name |-> <<"S", "t">>, file |-> "st.txt"],
      [name |-> <<"o", "r">>, file |-> "or.txt"],
      [name |-> <<"W", "s">>, file |-> "ws.txt"],
      [name |-> <<"u", "p">>, file |-> "up.txt"]>>

NServices == IF MaxServices < Len(AllServices) THEN MaxServices ELSE Len(AllServices)

DisableKey(k) == <<"DISABLE_">> \o ToUpper(AllServices[k].name)
CacheIPKey(k) == ToUpper(AllServices[k].name) \o <<"CACHE_IP">>

Unset == [x \in {} |-> << >>]

(* a variable left unset, or set to one of vals *)
Var(k, vals) == {Unset} \cup {k :> v : v \in vals}

RECURSIVE Merge(_)
Merge(fs) == IF fs = << >> THEN Unset ELSE fs[1] @@ Merge(Tail(fs))

CommonEnv == (K_LANCACHE_DNSDOMAIN :> DefaultDomain) @@ (K_UPSTREAM_DNS :> DefaultUpstream)

GenericEnv == (K_USE_GENERIC_CACHE :> <<"true">>) @@ (K_LANCACHE_IP :> PrivA) @@ CommonEnv

LineKinds == {<<"#", "c">>, << >>, <<" ">>, <<"a.example">>, <<" ", "b.example", " ">>}

SeqsUpTo(S, n) == UNION {[1..m -> S] : m \in 0..n}

BaseDomainFiles == [f \in {AllServices[k].file : k \in 1..NServices} |-> <<<<"a.example">>>>]

NamedTemplate ==
    <<<<"#ENABLE_UPSTREAM_DNS#", "forwarders { ", "dns_ip", "; };">>,
      <<"dnssec-validation no", ";">>>>

FreshFiles ==
    [p \in Paths |-> IF p = namedConf THEN [exists |-> TRUE, lines |-> NamedTemplate] ELSE Absent]

(* zones left by an earlier run of the generator, under another catalog *)
StaleCacheZone ==
    [exists |-> TRUE,
     lines |-> <<fmtCacheTemplate(DefaultDomain, <<"0">>), ARecord(<<"o", "l", "d">>, PrivA)>>]

StaleRPZZone ==
    [exists |-> TRUE,
     lines |-> <<rpzTemplate, <<";## old">>, ServicePassthru(PrivA),
                 RewriteLine(<<"old.example">>, <<"o", "l", "d">>, DefaultDomain)>>]

OperatorCustomZone == [exists |-> TRUE, lines |-> <<<<"printer IN A 10.0.0.9">>>>]

Scenario(e, c, d, f, g) == [env |-> e, catalog |-> c, domainFiles |-> d, files |-> f, git |-> g]

FullCatalog == SubSeq(AllServices, 1, NServices)

(* the global mode and the global cache IP *)
ModeScenarios ==
    {Scenario(Merge(<<g, i, CacheIPKey(1) :> PrivB, CommonEnv>>), FullCatalog, BaseDomainFiles,
              FreshFiles, FALSE) :
        g \in Var(K_USE_GENERIC_CACHE, {<<"true">>, <<"false">>}),
        i \in Var(K_LANCACHE_IP, {<< >>, PrivA, PubA, PrivA \o <<",">> \o PrivB})}

(* the DNS domain and the upstream resolvers *)
DomainScenarios ==
    {Scenario(Merge(<<d, u, K_USE_GENERIC_CACHE :> <<"true">>, K_LANCACHE_IP :> PrivA>>),
              FullCatalog, BaseDomainFiles, FreshFiles, FALSE) :
        d \in Var(K_LANCACHE_DNSDOMAIN, {<< >>, DefaultDomain, OtherDomain}),
        u \in Var(K_UPSTREAM_DNS, {<< >>, DefaultUpstream, OtherUpstream, BadIP,
                                   OtherUpstream \o <<" ">> \o DefaultUpstream})}

(* passthrough addresses, DNSSEC, NOFETCH *)
FinalScenarios ==
    {Scenario(Merge(<<p, s, n, GenericEnv>>), FullCatalog, BaseDomainFiles, FreshFiles, FALSE) :
        p \in Var(K_PASSTHRU_IPS, {PassIP, PassIP \o <<",">> \o PrivB, BadIP}),
        s \in Var(K_ENABLE_DNSSEC_VALIDATION, {<<"true">>}),
        n \in Var(K_NOFETCH, {<<"true">>})}

(* the settings of the services: service k takes every combination, the     *)
(* others have nothing set or a list of two private addresses; the catalog  *)
(* spells the names as AllServices does, or in capitals                     *)
OtherServiceEnv(n, k) ==
    {Merge([j \in 1..(n - 1) |-> o[j]]) :
        o \in [1..(n - 1) ->
                 {Unset} \cup {CacheIPKey(IF j < k THEN j ELSE j + 1) :> (PrivA \o <<", ">> \o PrivB)
                                  : j \in 1..(n - 1)}]}

ServiceScenarios ==
    UNION {
      {Scenario(Merge(<<dis, cip, o, m>>),
                [j \in 1..n |-> IF caps THEN [AllServices[j] EXCEPT !.name = ToUpper(@)]
                                ELSE AllServices[j]],
                BaseDomainFiles, FreshFiles, FALSE) :
          dis \in Var(DisableKey(k), {<<"true">>, <<"1">>}),
          cip \in Var(CacheIPKey(k), {<< >>, PrivB, PrivB \o <<",">> \o PubA}),
          o \in OtherServiceEnv(n, k),
          m \in {GenericEnv, CommonEnv},
          caps \in BOOLEAN}
      : n \in 1..NServices, k \in 1..NServices}

(* the domain list of the first service *)
DomainListScenarios ==
    {Scenario(GenericEnv, FullCatalog, [BaseDomainFiles EXCEPT ![AllServices[1].file] = l],
              FreshFiles, FALSE) :
        l \in SeqsUpTo(LineKinds, MaxLines)}

(* what earlier runs and the operator left on disk *)
DiskScenarios ==
    {Scenario(m, FullCatalog, BaseDomainFiles,
              [FreshFiles EXCEPT ![CacheZonePath(DefaultDomain)] = z[1], ![rpzZone] = z[2],
                                 ![customZone] = c],
              FALSE) :
        m \in {GenericEnv, (CacheIPKey(1) :> PrivB) @@ CommonEnv,
               (K_LANCACHE_IP :> PrivA) @@ CommonEnv},
        z \in {<<Absent, Absent>>, <<StaleCacheZone, StaleRPZZone>>},
        c \in {Absent, OperatorCustomZone}}

Scenarios ==
    ModeScenarios \cup DomainScenarios \cup FinalScenarios \cup ServiceScenarios
        \cup DomainListScenarios \cup DiskScenarios

RerunScenarios ==
    DiskScenarios \cup {sc \in FinalScenarios : DOMAIN sc.env \cap {K_NOFETCH, K_ENABLE_DNSSEC_VALIDATION} = {}}

InitWith(scenarios) ==
    /\ \E sc \in scenarios :
          /\ env = sc.env
          /\ catalog = sc.catalog
          /\ domainFiles = sc.domainFiles
          /\ files = sc.files
          /\ files0 = sc.files
          /\ gitPresent = sc.git
    /\ clock = 1
    /\ run = 1
    /\ pc = "start"
    /\ err = NoErr
    /\ failedAt = ""
    /\ steps = << >>
    /\ faultSeen = << >>
    /\ loc = LocInit
    /\ svcLog = << >>
    /\ finalAdded = << >>
    /\ lastGood = [ok |-> FALSE, run |-> 0, cache |-> << >>, rpz |-> << >>,
                   readFault |-> FALSE]

Init == InitWith(Scenarios)

InitRerun == InitWith(RerunScenarios)

(* one run of the command *)
Spec == Init /\ [][Next]_vars

(* the command run again and again on what the run before left on disk *)
SpecRerun == InitRerun /\ [][NextRerun]_vars

----------------------------------------------------------------------------
(* Properties *)

Executed(step) == \E i \in DOMAIN steps : steps[i] = step

CacheZonePaths == {CacheZonePath(d) : d \in {<< >>, DefaultDomain, OtherDomain}}

Lines(p) == files[p].lines

AllCacheLines == UNION {{Lines(p)[i] : i \in DOMAIN Lines(p)} : p \in CacheZonePaths}

IsARecord(line) == \E j \in DOMAIN line : line[j] = " IN A "

ARecordName(line) == SubSeq(line, 1, (CHOOSE j \in DOMAIN line : line[j] = " IN A ") - 1)

ARecordIP(line) ==
    SubSeq(line, (CHOOSE j \in DOMAIN line : line[j] = " IN A ") + 1, Len(line) - 1)

Mentions(line, name) ==
    \E j \in DOMAIN line : j + Len(name) - 1 <= Len(line) /\ SubSeq(line, j, j + Len(name) - 1) = name

IsPassthru(line) == Len(line) > 0 /\ line[1] = "32."

GenericMode == Getenv(K_USE_GENERIC_CACHE) = <<"true">>

BadMode ==
    \/ GenericMode /\ Getenv(K_LANCACHE_IP) = << >>
    \/ ~GenericMode /\ Getenv(K_LANCACHE_IP) # << >>

(* C1: with generic-cache mode on and no global cache IP, or generic-cache  *)
(* mode off and a global cache IP, the run ends in an error, the error     *)
(* returned by checkGenericCache is one of its two configuration errors,   *)
(* no step after checkGenericCache is executed, no service is processed    *)
(* and the cache zone and the RPZ zone stay as they were before the run.   *)
C1_BadModeIsFatalBeforeZones ==
    BadMode =>
        /\ pc \in {"start", "writeResolverConfiguration", "bootstrapDNS", "checkGenericCache",
                   "done"}
        /\ pc = "done" => err # NoErr
        /\ Executed("checkGenericCache") =>
              /\ pc = "done"
              /\ failedAt = "checkGenericCache"
              /\ err = IF GenericMode THEN ErrNeedIP ELSE ErrNeedGeneric
        /\ svcLog = << >>
        /\ \A p \in CacheZonePaths \cup {rpzZone} : files[p] = files0[p]

C1_Witness ==
    /\ BadMode
    /\ ~GenericMode
    /\ pc = "done"
    /\ failedAt = "checkGenericCache"
    /\ files0[rpzZone].exists

(* the enablement rule as the claim states it, on the catalog's spelling *)
ClaimEnabled(name) ==
    IF GenericMode
    THEN ~(<<"DISABLE_">> \o ToUpper(name) \in DOMAIN env
           /\ env[<<"DISABLE_">> \o ToUpper(name)] = <<"true">>)
    ELSE ToUpper(name) \o <<"CACHE_IP">> \in DOMAIN env

(* C2: every processed service was enabled exactly when, in generic-cache   *)
(* mode, DISABLE_<S> is not "true" and, in non-generic mode, <S>CACHE_IP   *)
(* is present in the environment (S the upper-cased name); a disabled      *)
(* service appended nothing, and no line of either zone mentions it.       *)
C2_Enablement ==
    \A i \in DOMAIN svcLog :
        /\ svcLog[i].enabled = ClaimEnabled(catalog[i].name)
        /\ ~ClaimEnabled(catalog[i].name) =>
              /\ svcLog[i].cacheAdd = << >>
              /\ svcLog[i].rpzAdd = << >>
              /\ svcLog[i].domAdd = << >>
              /\ \A l \in AllCacheLines \cup {Lines(rpzZone)[j] : j \in DOMAIN Lines(rpzZone)} :
                    ~Mentions(l, ToLower(catalog[i].name))

C2_Witness ==
    /\ pc = "done"
    /\ err = NoErr
    /\ ~GenericMode
    /\ Len(svcLog) >= 2
    /\ ~svcLog[1].enabled
    /\ svcLog[2].enabled
    /\ catalog[1].name = ToUpper(catalog[1].name)

(* C3: an enabled service's IP list is its <S>CACHE_IP override when that   *)
(* is non-empty and the global cache IP otherwise; when both are empty the *)
(* service returns the error naming it, appends nothing, is the last       *)
(* service processed, and finaliseConfiguration is not executed.           *)
C3_TargetIP ==
    \A i \in DOMAIN svcLog :
        LET override == Getenv(ToUpper(catalog[i].name) \o <<"CACHE_IP">>)
            global == Getenv(K_LANCACHE_IP)
        IN  ClaimEnabled(catalog[i].name) =>
              /\ svcLog[i].ip = IF override # << >> THEN override ELSE global
              /\ (override = << >> /\ global = << >>) =>
                    /\ svcLog[i].err = ErrNoServiceIP(ToUpper(catalog[i].name))
                    /\ err = svcLog[i].err
                    /\ svcLog[i].cacheAdd = << >>
                    /\ svcLog[i].rpzAdd = << >>
                    /\ svcLog[i].domAdd = << >>
                    /\ pc = "done"
                    /\ failedAt = "generateService"
                    /\ i = Len(svcLog)
                    /\ ~Executed("finaliseConfiguration")
                    /\ finalAdded = << >>

C3_Witness ==
    /\ pc = "done"
    /\ Len(svcLog) = 1
    /\ Len(catalog) > 1
    /\ svcLog[1].enabled
    /\ svcLog[1].ip = << >>
    /\ LookupEnv(ToUpper(catalog[1].name) \o <<"CACHE_IP">>)

(* C4: every A record of a cache zone carries a private address; a service *)
(* whose IP list holds an address that is not private returns an error,    *)
(* ends the run, and appended no A record and no passthrough record.       *)
C4_OnlyPrivateRecords ==
    /\ \A l \in AllCacheLines : IsARecord(l) => IsPrivate(ARecordIP(l))
    /\ \A i \in DOMAIN svcLog :
          (svcLog[i].enabled /\ \E k \in DOMAIN cleanIP(svcLog[i].ip) :
                                    ~IsPrivate(cleanIP(svcLog[i].ip)[k])) =>
              /\ svcLog[i].err # NoErr
              /\ pc = "done"
              /\ err = svcLog[i].err
              /\ svcLog[i].cacheAdd = << >>
              /\ \A j \in DOMAIN svcLog[i].rpzAdd : ~IsPassthru(svcLog[i].rpzAdd[j])
              /\ \A l \in AllCacheLines : ~Mentions(l, ToLower(catalog[i].name))

C4_Witness ==
    /\ pc = "done"
    /\ \E i \in DOMAIN svcLog :
          /\ svcLog[i].ip = PrivB \o <<",">> \o PubA
          /\ svcLog[i].err = ErrNotPrivate
          /\ svcLog[i].fault.kind = "none"

(* the rewrite lines the claim asks for: one per line that is neither a    *)
(* comment nor blank                                                       *)
RECURSIVE ClaimRewrites(_, _, _)
ClaimRewrites(lines, service, domain) ==
    IF lines = << >> THEN << >>
    ELSE (IF HasPrefix(lines[1], "#") \/ TrimSpace(lines[1]) = << >>
          THEN << >>
          ELSE <<RewriteLine(lines[1], service, domain)>>)
         \o ClaimRewrites(Tail(lines), service, domain)

(* C5: for an enabled service with at least one address whose domain list  *)
(* was read without failure, the lines the merge appended to the RPZ zone  *)
(* are exactly one rewrite per line that is neither a comment nor blank,   *)
(* in file order.                                                          *)
C5_DomainMerge ==
    \A i \in DOMAIN svcLog :
        (svcLog[i].err = NoErr /\ svcLog[i].cacheAdd # << >> /\ svcLog[i].fault.kind = "none") =>
            svcLog[i].domAdd =
                ClaimRewrites(domainFiles[catalog[i].file], ToLower(catalog[i].name),
                              loc.lancacheDNSDomain)

(* C6: after a run that finished, for every address of PASSTHRU_IPS the    *)
(* lines appended by finaliseConfiguration hold the passthrough record in  *)
(* the format generateService writes for that address.                     *)
C6_PassthruFormat ==
    (pc = "done" /\ err = NoErr) =>
        \A i \in DOMAIN cleanIP(Getenv(K_PASSTHRU_IPS)) :
            \E j \in DOMAIN finalAdded :
                finalAdded[j] = ServicePassthru(cleanIP(Getenv(K_PASSTHRU_IPS))[i])

CatalogIndex(name) == CHOOSE k \in DOMAIN catalog : ToLower(catalog[k].name) = name

ARecords(lines) == SelectSeq(lines, IsARecord)

C8_EveryFailureIsFatal == faultSeen # << >> => (pc = "done" /\ err # NoErr)

(* C9: the custom zone never holds anything but what it held before the    *)
(* first run; a file that was there is unchanged, and after a run that     *)
(* finished the file exists.                                               *)
C9_CustomZoneKept ==
    /\ Lines(customZone) = files0[customZone].lines
    /\ files0[customZone].exists => files[customZone] = files0[customZone]
    /\ (pc = "done" /\ err = NoErr) => files[customZone].exists

C9_Witness ==
    /\ pc = "done"
    /\ err = NoErr
    /\ run > 1
    /\ files0[customZone] = OperatorCustomZone
    /\ Executed("finaliseConfiguration")

(* C10: once the settings are read, an unset or empty LANCACHE_DNSDOMAIN   *)
(* gives the domain cache.lancache.net (and its zone path), an unset or    *)
(* empty UPSTREAM_DNS gives the upstream list 8.8.8.8, and any other value *)
(* is used as it is.                                                       *)
C10_Defaults ==
    Executed("isIP") =>
        /\ loc.lancacheDNSDomain =
              IF Getenv(K_LANCACHE_DNSDOMAIN) = << >> THEN DefaultDomain
              ELSE Getenv(K_LANCACHE_DNSDOMAIN)
        /\ loc.cacheZone = CacheZonePath(loc.lancacheDNSDomain)
        /\ loc.dns =
              IF Getenv(K_UPSTREAM_DNS) = << >> THEN <<DefaultUpstream>>
              ELSE cleanIP(Getenv(K_UPSTREAM_DNS))

====
